---- MODULE Spec2Model ----
(***************************************************************************)
(* A model of bot.py: the MEXC / Quanto spread monitor.                    *)
(*                                                                         *)
(* poll_loop runs on one asyncio event loop: a coroutine runs without      *)
(* interruption from one await that suspends to the next, so every action  *)
(* of a per-pair workflow below is the code between two network awaits.    *)
(* The Flask routes run on other threads, one per request: a route that    *)
(* rewrites config.json reads the file in one step, truncates it when it   *)
(* opens it for writing in another and writes its text when it closes it   *)
(* in a third, and other requests run between them.                        *)
(*                                                                         *)
(* Numbers: Python floats are modelled as exact rationals <<n, d>> in      *)
(* lowest terms with d > 0.  A string that the code splits or formats is   *)
(* modelled as the tuple of its parts: the pair "BTC/USDT" is              *)
(* <<"BTC", "USDT">>, the market code "BTC-USD-SWAP-LIN" is                 *)
(* <<"BTC", "USD-SWAP-LIN">>, the empty string is << >>.                   *)
(* An optional value (None or a value) is << >> or <<value>>.              *)
(***************************************************************************)
EXTENDS Integers, Sequences, FiniteSets, Bags, TLC

VARIABLES
    PAIRS,          \* the module global PAIRS, read from config.json at import
    cfgFile,        \* the content of config.json on disk
    pending,        \* the route threads between their read and their write of
                    \* config.json: a bag of the route, the list it will write
                    \* and whether it has opened the file for writing
    pairs,          \* poll_loop's local list of symbols
    loopPc,         \* where poll_loop stands
    idx,            \* position of the for loop over pairs
    semaphore,      \* value of asyncio.Semaphore(CONCURRENCY)
    tasks,          \* the per-pair coroutines of the current cycle
    prices,         \* poll_loop's dict prices: symbol -> spread
    last_spread,    \* poll_loop's dict last_spread: symbol -> spread
    prices_cache,   \* the module global the dashboard serves
    offset,         \* handle_status_commands' local offset
    mapBase,        \* argument base_symbol of a stand-alone try_quanto_mappings call
    mapResp,        \* venue-B response to each candidate of that call
    mapOut,         \* what that call returned, if it has run
    feed,           \* a scripted run: the quotes the venues give, poll by poll
    feedPos         \* the quote of the script that answers the next poll

vars == <<PAIRS, cfgFile, pending, pairs, loopPc, idx, semaphore, tasks, prices,
          last_spread, prices_cache, offset, mapBase, mapResp, mapOut, feed, feedPos>>

loopVars == <<PAIRS, cfgFile, pending, pairs, loopPc, idx, semaphore, tasks, prices,
              last_spread, prices_cache, offset>>

mapVars == <<mapBase, mapResp, mapOut>>

feedVars == <<feed, feedPos>>

fileVars == <<cfgFile, pending>>

----------------------------------------------------------------------------
(* Optional values and exact arithmetic *)

None == << >>

Some(x) == <<x>>

Abs(n) == IF n < 0 THEN -n ELSE n

RECURSIVE GCD(_, _)
GCD(a, b) == IF b = 0 THEN a ELSE GCD(b, a % b)

\* the rational n/d (d # 0) in lowest terms with a positive denominator
Lowest(p) ==
    LET g == CHOOSE v \in {GCD(Abs(p[1]), Abs(p[2]))} : TRUE
        s == IF p[2] < 0 THEN -1 ELSE 1
    IN  <<(s * p[1]) \div g, (s * p[2]) \div g>>

R(n, d) == CHOOSE r \in {Lowest(p) : p \in {<<n, d>>}} : TRUE

RAdd(x, y) == R(x[1] * y[2] + y[1] * x[2], x[2] * y[2])

RSub(x, y) == R(x[1] * y[2] - y[1] * x[2], x[2] * y[2])

RMul(x, y) == R(x[1] * y[1], x[2] * y[2])

RDiv(x, y) == R(x[1] * y[2], x[2] * y[1])

RAbs(x) == <<Abs(x[1]), x[2]>>

RGe(x, y) == x[1] * y[2] >= y[1] * x[2]

RGt(x, y) == x[1] * y[2] > y[1] * x[2]

RZero == <<0, 1>>

\* Python truthiness of an optional float: None and 0.0 are falsy
TruthyFloat(o) == o # None /\ o[1][1] # 0

----------------------------------------------------------------------------
(* Program constants and configuration *)

CONCURRENCY == 10

MAX_PAIRS == 50

\* float(CONFIG.get("SPREAD_THRESHOLD", 1.0)) with the default configuration
SPREAD_THRESHOLD == R(1, 1)

\* TELEGRAM_TOKEN and CHAT_ID are both set (the configured deployment)
TelegramConfigured == TRUE

\* CONFIG.get("CHAT_ID")
CHAT_ID == 42

BTC == <<"BTC", "USDT">>

ETH == <<"ETH", "USDT">>

\* symbols venue A does not list: fetch_ticker raises for them
UnlistedPool ==
    << <<"U01", "USDT">>, <<"U02", "USDT">>, <<"U03", "USDT">>, <<"U04", "USDT">>,
       <<"U05", "USDT">>, <<"U06", "USDT">>, <<"U07", "USDT">>, <<"U08", "USDT">>,
       <<"U09", "USDT">>, <<"U10", "USDT">>, <<"U11", "USDT">>, <<"U12", "USDT">> >>

\* how many pairs more than the semaphore has slots the large configuration holds
ExtraPairs == 1

\* a configuration with more pairs than the semaphore has slots
ManyPairs == SubSeq(UnlistedPool, 1, CONCURRENCY + ExtraPairs)

Range(s) == {s[i] : i \in 1..Len(s)}

Listed == {BTC, ETH}

\* markets venue A lists without a last price
XRP == <<"XRP", "USDT">>

BTCUSDC == <<"BTC", "USDC">>

Illiquid == {XRP, BTCUSDC}

AllSymbols == Listed \cup Illiquid \cup Range(UnlistedPool)

\* the "PAIRS" lists config.json may hold when the program starts
Configs == { <<BTC>>, <<BTC, ETH>>, <<BTC, BTC>>, << >>, ManyPairs }

\* what exchange.load_markets() returns: symbol and market type
Markets ==
    << [symbol |-> XRP, type |-> "swap"],
       [symbol |-> <<"ETH", "BTC">>, type |-> "swap"],
       [symbol |-> ETH, type |-> "spot"],
       [symbol |-> BTCUSDC, type |-> "swap"] >>

\* needle in s, for two strings
Occurs(needle, s) ==
    \E i \in 1..(Len(s) - Len(needle) + 1) :
        SubSeq(s, i, i + Len(needle) - 1) = needle

\* the test  "USDT" in s or "USD" in s  on a symbol; neither needle holds
\* the separator "/", so it occurs in the symbol iff it occurs in a part
HasUSD(symbol) ==
    \E k \in 1..Len(symbol) : Occurs("USDT", symbol[k]) \/ Occurs("USD", symbol[k])

----------------------------------------------------------------------------
(* Inputs from the network *)

\* tops of book (best bid, best ask) venue B may quote
TopsOfBook == {<<98, 100>>, <<99, 101>>, <<100, 101>>, <<100, 102>>, <<101, 103>>}

\* last prices venue A may quote for a listed symbol (None: no "last" field)
MexcLasts == {None, Some(0), Some(100)}

\* outcomes of exchange.fetch_ticker(symbol): it raises, or returns a ticker
MexcResponses(symbol) ==
    IF symbol \in Listed
    THEN {[kind |-> "raise", last |-> None]}
         \cup {[kind |-> "ticker", last |-> l] : l \in MexcLasts}
    ELSE IF symbol \in Illiquid
         THEN {[kind |-> "raise", last |-> None], [kind |-> "ticker", last |-> None]}
         ELSE {[kind |-> "raise", last |-> None]}

\* the bids and asks of a depth response: both sides quoted, or one side empty
Books ==
    {[bids |-> <<b[1]>>, asks |-> <<b[2]>>] : b \in TopsOfBook}
    \cup {[bids |-> << >>, asks |-> <<100>>], [bids |-> <<100>>, asks |-> << >>]}

\* outcomes of GET /v3/depth: the request or the JSON decoding raises, or a
\* JSON object arrives with or without "success", "data", bids and asks
QuantoResponses ==
    {[kind |-> "raise", success |-> FALSE, hasData |-> FALSE, bids |-> << >>, asks |-> << >>],
     [kind |-> "json", success |-> FALSE, hasData |-> TRUE, bids |-> << >>, asks |-> << >>],
     [kind |-> "json", success |-> TRUE, hasData |-> FALSE, bids |-> << >>, asks |-> << >>]}
    \cup {[kind |-> "json", success |-> TRUE, hasData |-> TRUE,
             bids |-> b.bids, asks |-> b.asks] : b \in Books}

\* outcomes of session.post to Telegram
TelegramOutcomes == {"ok", "http_error", "raise"}

----------------------------------------------------------------------------
(* The helpers.  A call either returns a value or raises: [exc, val]. *)

Return(v) == [exc |-> FALSE, val |-> v]

Raise == [exc |-> TRUE, val |-> None]

\* float(x) of a number
Float(x) == R(x, 1)

\* a helper without its try ... except: the exception leaves the helper
Uncaught(r) == r

\* try ... except Exception: return None
CatchNone(r) == IF r.exc THEN Return(None) ELSE r

\* send_telegram_message without its try ... except
Reraise(r) == r

\* try ... except Exception as e: logging.error(...)
CatchLog(r) == IF r.exc THEN Return(None) ELSE r

SendTelegramBody(outcome) ==
    IF outcome = "raise" THEN Raise ELSE Return(None)

SendTelegramMessage(outcome) ==
    IF ~TelegramConfigured THEN Return(None)
    ELSE CatchLog(SendTelegramBody(outcome))

FetchMexcBody(resp) ==
    IF resp.kind = "raise" THEN Raise
    ELSE IF resp.last # None /\ resp.last[1] # 0
         THEN Return(Some(Float(resp.last[1])))
         ELSE Return(None)

FetchMexcPrice(resp) == CatchNone(FetchMexcBody(resp))

FetchQuantoBody(resp) ==
    IF resp.kind = "raise" THEN Raise
    ELSE IF resp.success /\ resp.hasData
         THEN IF resp.bids # << >> /\ resp.asks # << >>
              THEN LET bid == Float(resp.bids[1])
                       ask == Float(resp.asks[1])
                   IN  Return(Some(RDiv(RAdd(bid, ask), R(2, 1))))
              ELSE Return(None)
         ELSE Return(None)

\* fetch_quanto_price letting its exceptions through
FetchQuantoUncaught(resp) == FetchQuantoBody(resp)

FetchQuantoPrice(resp) == CatchNone(FetchQuantoBody(resp))

\* the candidate list with each USDT template ahead of its USD twin
CandidatesUsdtFirst(base_symbol) ==
    << <<base_symbol, "USDT-SWAP-LIN">>,
       <<base_symbol, "USD-SWAP-LIN">>,
       <<base_symbol, "USDT-SWAP">>,
       <<base_symbol, "USD-SWAP">>,
       <<base_symbol, "USDT">>,
       <<base_symbol, "USD">> >>

Candidates(base_symbol) ==
    << <<base_symbol, "USD-SWAP-LIN">>,
       <<base_symbol, "USDT-SWAP-LIN">>,
       <<base_symbol, "USD-SWAP">>,
       <<base_symbol, "USDT-SWAP">>,
       <<base_symbol, "USD">>,
       <<base_symbol, "USDT">> >>

NumCandidates == Len(Candidates("BTC"))

\* One pass of the for loop of try_quanto_mappings over candidate k, given
\* the venue's response: "raise" (the lookup's exception propagates),
\* "return" (of c, p, or of None, None after the last candidate) or "next".
\* try_quanto_mappings going through all its candidates before it returns
TryStepExhaustive(base_symbol, k, resp) ==
    LET r == FetchQuantoPrice(resp)
    IN  IF r.exc THEN [kind |-> "raise", sym |-> None, p |-> None]
        ELSE IF k >= NumCandidates
             THEN IF r.val # None
                  THEN [kind |-> "return", sym |-> Some(Candidates(base_symbol)[k]), p |-> r.val]
                  ELSE [kind |-> "return", sym |-> None, p |-> None]
             ELSE [kind |-> "next", sym |-> None, p |-> None]

TryStep(base_symbol, k, resp) ==
    LET r == FetchQuantoPrice(resp)
    IN  IF r.exc THEN [kind |-> "raise", sym |-> None, p |-> None]
        ELSE IF r.val # None
             THEN [kind |-> "return", sym |-> Some(Candidates(base_symbol)[k]), p |-> r.val]
             ELSE IF k >= NumCandidates
                  THEN [kind |-> "return", sym |-> None, p |-> None]
                  ELSE [kind |-> "next", sym |-> None, p |-> None]

RECURSIVE TryFrom(_, _, _)
TryFrom(base_symbol, resps, k) ==
    LET s == TryStep(base_symbol, k, resps[k])
    IN  IF s.kind = "next" THEN TryFrom(base_symbol, resps, k + 1) ELSE s

\* try_quanto_mappings(session, base_symbol) when candidate k answers resps[k]
TryQuantoMappings(base_symbol, resps) == TryFrom(base_symbol, resps, 1)

Min(a, b) == IF a < b THEN a ELSE b

RECURSIVE SwapPairs(_)
SwapPairs(markets) ==
    IF markets = << >> THEN << >>
    ELSE LET m == Head(markets)
             rest == SwapPairs(Tail(markets))
         IN  IF m.type = "swap" /\ HasUSD(m.symbol) THEN <<m.symbol>> \o rest ELSE rest

BuildPairs(markets, limit) ==
    LET swap_pairs == SwapPairs(markets)
    IN  SubSeq(swap_pairs, 1, Min(limit, Len(swap_pairs)))

\* symbol.split("/")[0]
Base(symbol) == symbol[1]

\* the spread taken relative to the venue-B price
ComputeSpreadOverVenueB(mexc_p, quanto_p) ==
    RMul(RDiv(RSub(quanto_p, mexc_p), quanto_p), R(100, 1))

ComputeSpread(mexc_p, quanto_p) ==
    RMul(RDiv(RSub(quanto_p, mexc_p), mexc_p), R(100, 1))

\* d.get(key, default)
DictGet(d, key, default) == IF key \in DOMAIN d THEN d[key] ELSE default

\* the direction label with the sign convention the wrong way round
DirectionInverted(spread) ==
    IF RGt(spread, RZero) THEN "Vendi su MEXC / Compra su Quanto"
    ELSE "Compra su MEXC / Vendi su Quanto"

\* line 162: the direction label of an alert
Direction(spread) ==
    IF RGt(spread, RZero) THEN "Compra su MEXC / Vendi su Quanto"
    ELSE "Vendi su MEXC / Compra su Quanto"

\* line 163: the icon of an alert
Icon(spread) == IF RGt(spread, RZero) THEN "green" ELSE "red"

\* f"{x:.2f}": the texts (sign, whole part, hundredths) the format may give
\* for a float whose exact value is x.  The code formats the double, which lies
\* within a rounding error of x: off a tie the text is x rounded to the nearest
\* hundredth; when x lies halfway between two hundredths the double lies just
\* below, on or just above the tie, as the roundings of the operations that
\* computed it fell, and the text is either neighbour (1.015 computed from
\* 10000 and 10101.5 gives "1.01", 1.025 computed from 2000 and 2020.5 "1.03")
Format2(x) ==
    LET n == Abs(x[1]) * 100
        q == n \div x[2]
        rem == n % x[2]
        Text(h) == [neg |-> x[1] < 0, whole |-> h \div 100, hundredths |-> h % 100]
    IN  IF 2 * rem = x[2] THEN {Text(q), Text(q + 1)}
        ELSE IF 2 * rem > x[2] THEN {Text(q + 1)} ELSE {Text(q)}

\* line 163: the text of an alert whose spread is formatted as text
AlertMessage(symbol, spread, text) ==
    [icon |-> Icon(spread), symbol |-> symbol, spread |-> text,
     direction |-> Direction(spread)]

\* alerting only when the spread is above the threshold, not at it
ShouldAlertAbove(spread, prev) ==
    RGt(RAbs(spread), SPREAD_THRESHOLD) /\ RGt(RAbs(spread), RAbs(prev))

\* alerting only when the spread crosses the threshold from below
ShouldAlertOnCrossing(spread, prev) ==
    RGe(RAbs(spread), SPREAD_THRESHOLD) /\ ~RGe(RAbs(prev), SPREAD_THRESHOLD)

\* alerting on every poll at or above the threshold
ShouldAlertSustained(spread, prev) == RGe(RAbs(spread), SPREAD_THRESHOLD)

ShouldAlert(spread, prev) ==
    RGe(RAbs(spread), SPREAD_THRESHOLD) /\ RGt(RAbs(spread), RAbs(prev))

----------------------------------------------------------------------------
(* State *)

\* a Python dict is the function from its keys to their values
EmptyDict == << >>

\* d[key] = value
DictSet(d, key, value) ==
    [k \in DOMAIN d \cup {key} |-> IF k = key THEN value ELSE d[k]]

\* a process_pair coroutine: its argument symbol, where it stands, its locals
\* mexc_p, quanto_p, spread and msg, the candidate try_quanto_mappings is
\* looking up, whether it fired an alert, and the stage ("venueA", "mapping",
\* "notify") of the last network call of the workflow that raised ("" when
\* none did)
NewTask(symbol) ==
    [symbol |-> symbol, pc |-> "created", mexc_p |-> None, cand |-> 0,
     quanto_p |-> None, spread |-> None, alerted |-> FALSE, msg |-> None,
     raised |-> ""]

\* the coroutine has returned
Finished(t) == [t EXCEPT !.pc = "done", !.cand = 0]

\* the task after a network call of the given stage raised or not
Noting(t, stage, exc) == IF exc THEN [t EXCEPT !.raised = stage] ELSE t

\* the length of the text of a symbol, "BTC/USDT" for <<"BTC", "USDT">>
RECURSIVE SymbolLen(_)
SymbolLen(symbol) ==
    IF symbol = << >> THEN 0
    ELSE Len(Head(symbol)) + (IF Len(symbol) > 1 THEN 1 ELSE 0) + SymbolLen(Tail(symbol))

RECURSIVE ItemsLen(_)
ItemsLen(cfg) ==
    IF cfg = << >> THEN 0 ELSE 10 + SymbolLen(Head(cfg)) + ItemsLen(Tail(cfg))

\* the length of the text json.dump(cfg, f, indent=4) writes for the "PAIRS"
\* list: "[]", or "[", one indented quoted item a line, "    ]"
ArrayLen(cfg) ==
    IF cfg = << >> THEN 2 ELSE 2 + ItemsLen(cfg) + 2 * (Len(cfg) - 1) + 6

\* The content of config.json: the "PAIRS" list json.load finds in it (None
\* when the text is not JSON) and the length of the text from the list on;
\* the text before the list is the same in every text the routes write.
\* config.json holding the list cfg
JsonFile(cfg) == [PAIRS |-> Some(cfg), size |-> ArrayLen(cfg)]

\* config.json just opened with open(CONFIG_FILE, "w"): empty
Truncated == [PAIRS |-> None, size |-> 0]

\* config.json after a writer that holds cfg closes it: its text lands at
\* offset 0; over a longer text written since it opened the file, the end of
\* that text stays behind it and the file is not JSON
Overwrite(content, cfg) ==
    IF content.size <= ArrayLen(cfg) THEN JsonFile(cfg)
    ELSE [PAIRS |-> None, size |-> content.size]

InFlight == {i \in 1..Len(tasks) : tasks[i].pc \notin {"created", "done"}}

Init ==
    /\ PAIRS \in Configs
    /\ cfgFile = JsonFile(PAIRS)
    /\ pending = EmptyBag
    /\ pairs = << >>
    /\ loopPc = "init"
    /\ idx = 1
    /\ semaphore = CONCURRENCY
    /\ tasks = << >>
    /\ prices = EmptyDict
    /\ last_spread = EmptyDict
    /\ prices_cache = EmptyDict
    /\ offset = 0
    /\ mapBase = "BTC"
    /\ mapResp = << >>
    /\ mapOut = None
    /\ feed = << >>
    /\ feedPos = 1

----------------------------------------------------------------------------
(* poll_loop *)

\* lines 115-129 up to the first await: with a configured list the start-up
\* message is posted, with an empty one build_pairs asks for the markets
Start ==
    /\ loopPc = "init"
    /\ IF PAIRS # << >>
       THEN pairs' = PAIRS /\ loopPc' = "startMsg"
       ELSE pairs' = pairs /\ loopPc' = "loadMarkets"
    /\ UNCHANGED <<PAIRS, fileVars, idx, semaphore, tasks, prices, last_spread,
                   prices_cache, offset, mapVars, feedVars>>

\* outcomes of exchange.load_markets(): it raises, or returns the markets
MarketsResponses == {[kind |-> "raise", markets |-> << >>],
                     [kind |-> "markets", markets |-> Markets]}

\* lines 106-111, 126-129: load_markets answers.  The call stands outside the
\* try of poll_loop: when it raises poll_loop ends with the exception, before
\* the start-up message and the status handler, and nothing is closed
MarketsLoaded ==
    /\ loopPc = "loadMarkets"
    /\ \E resp \in MarketsResponses :
         IF resp.kind = "raise"
         THEN pairs' = pairs /\ loopPc' = "failed"
         ELSE pairs' = BuildPairs(resp.markets, MAX_PAIRS) /\ loopPc' = "startMsg"
    /\ UNCHANGED <<PAIRS, fileVars, idx, semaphore, tasks, prices, last_spread,
                   prices_cache, offset, mapVars, feedVars>>

\* lines 129-135: the start-up message returns, the status handler is created
\* and the first pass of while True starts
StartupMessageReturn ==
    /\ loopPc = "startMsg"
    /\ \E o \in TelegramOutcomes :
         loopPc' = IF SendTelegramMessage(o).exc THEN "crashed" ELSE "for"
    /\ UNCHANGED <<PAIRS, fileVars, pairs, idx, semaphore, tasks, prices, last_spread,
                   prices_cache, offset, mapVars, feedVars>>

\* line 137: async with semaphore, entered for the next symbol
Acquire ==
    /\ loopPc = "for"
    /\ idx <= Len(pairs)
    /\ semaphore > 0
    /\ semaphore' = semaphore - 1
    /\ loopPc' = "inSem"
    /\ UNCHANGED <<PAIRS, fileVars, pairs, idx, tasks, prices, last_spread,
                   prices_cache, offset, mapVars, feedVars>>

\* lines 138 and 137: the coroutine object is appended (not started), and the
\* semaphore is released on leaving the with block
AppendRelease ==
    /\ loopPc = "inSem"
    /\ tasks' = Append(tasks, NewTask(pairs[idx]))
    /\ semaphore' = semaphore + 1
    /\ idx' = idx + 1
    /\ loopPc' = "for"
    /\ UNCHANGED <<PAIRS, fileVars, pairs, prices, last_spread,
                   prices_cache, offset, mapVars, feedVars>>

\* a coroutine started by gather runs up to its first await, fetch_ticker
Started(t) == [t EXCEPT !.pc = "fetchA"]

\* line 139: asyncio.gather(*tasks) schedules every coroutine; each one starts
\* before any network response is handled
Gather ==
    /\ loopPc = "for"
    /\ idx > Len(pairs)
    /\ tasks' = [i \in 1..Len(tasks) |-> Started(tasks[i])]
    /\ loopPc' = "gather"
    /\ UNCHANGED <<PAIRS, fileVars, pairs, idx, semaphore, prices, last_spread,
                   prices_cache, offset, mapVars, feedVars>>

\* the loop going on to its sleep as soon as one coroutine has finished
GatherDoneFirst ==
    /\ loopPc = "gather"
    /\ \E i \in 1..Len(tasks) : tasks[i].pc = "done"
    /\ loopPc' = "sleep"
    /\ UNCHANGED <<PAIRS, fileVars, pairs, idx, semaphore, tasks, prices, last_spread,
                   prices_cache, offset, mapVars, feedVars>>

\* lines 139-140: gather returns once every coroutine has finished; sleep starts
GatherDone ==
    /\ loopPc = "gather"
    /\ \A i \in 1..Len(tasks) : tasks[i].pc = "done"
    /\ loopPc' = "sleep"
    /\ UNCHANGED <<PAIRS, fileVars, pairs, idx, semaphore, tasks, prices, last_spread,
                   prices_cache, offset, mapVars, feedVars>>

\* lines 140, 134-135: the sleep ends, the next pass of while True starts
Wake ==
    /\ loopPc = "sleep"
    /\ tasks' = << >>
    /\ idx' = 1
    /\ loopPc' = "for"
    /\ UNCHANGED <<PAIRS, fileVars, pairs, semaphore, prices, last_spread,
                   prices_cache, offset, mapVars, feedVars>>

\* lines 140-143: an exception raised at the loop level, here out of
\* asyncio.sleep.  The try encloses the while, so the loop is left for the
\* handler, which logs the error and posts the error message.  No answer of
\* either venue or of Telegram raises one here: process_pair catches every
\* Exception, so gather raises none; the exception comes from the runtime
LoopException ==
    /\ loopPc = "sleep"
    /\ loopPc' = "errMsg"
    /\ UNCHANGED <<PAIRS, fileVars, pairs, idx, semaphore, tasks, prices, last_spread,
                   prices_cache, offset, mapVars, feedVars>>

\* lines 143-145: send_telegram_message returns, whatever Telegram answered,
\* and finally starts closing the session
ErrorMessageReturn ==
    /\ loopPc = "errMsg"
    /\ loopPc' = "closeSession"
    /\ UNCHANGED <<PAIRS, fileVars, pairs, idx, semaphore, tasks, prices, last_spread,
                   prices_cache, offset, mapVars, feedVars>>

\* lines 145-146: session.close() returns, the exchange starts closing
SessionClosed ==
    /\ loopPc = "closeSession"
    /\ loopPc' = "closeExchange"
    /\ UNCHANGED <<PAIRS, fileVars, pairs, idx, semaphore, tasks, prices, last_spread,
                   prices_cache, offset, mapVars, feedVars>>

\* line 146: ccxt_mexc.close() returns and poll_loop returns
ExchangeClosed ==
    /\ loopPc = "closeExchange"
    /\ loopPc' = "closed"
    /\ UNCHANGED <<PAIRS, fileVars, pairs, idx, semaphore, tasks, prices, last_spread,
                   prices_cache, offset, mapVars, feedVars>>

----------------------------------------------------------------------------
(* process_pair *)

SetTask(i, t) == [tasks EXCEPT ![i] = t]

\* process_pair without its test  if not mexc_p: return
AfterFetchUnchecked(t, r) ==
    IF r.exc THEN Finished(t)
    ELSE [t EXCEPT !.pc = "map", !.mexc_p = r.val, !.cand = 1]

\* lines 150-154: the task once fetch_mexc_price returned r
AfterFetch(t, r) ==
    IF r.exc THEN Finished(t)
    ELSE IF ~TruthyFloat(r.val) THEN Finished([t EXCEPT !.mexc_p = r.val])
         ELSE [t EXCEPT !.pc = "map", !.mexc_p = r.val, !.cand = 1]

\* lines 150-153: fetch_ticker answers resp; a falsy price ends the workflow,
\* otherwise try_quanto_mappings issues the lookup of its first candidate
FetchAStep(i, resp) ==
    /\ loopPc = "gather"
    /\ tasks[i].pc = "fetchA"
    /\ \E r \in {FetchMexcPrice(resp)} :
         tasks' = SetTask(i, AfterFetch(Noting(tasks[i], "venueA", FetchMexcBody(resp).exc), r))
    /\ UNCHANGED <<PAIRS, fileVars, pairs, loopPc, idx, semaphore, prices, last_spread,
                   prices_cache, offset, mapVars>>

\* venue A answers the ticker request of workflow i
FetchAReturn(i) ==
    /\ tasks[i].pc = "fetchA"
    /\ \E resp \in MexcResponses(tasks[i].symbol) : FetchAStep(i, resp)
    /\ UNCHANGED feedVars

\* lines 157-166 up to the await of send_telegram_message: the task, prices
\* and last_spread after a spread is computed from mexc_p and quanto_p
Observed(t, spread, alert, text, pr, ls) ==
    LET msg == IF alert THEN Some(AlertMessage(t.symbol, spread, text)) ELSE None
        seen == [t EXCEPT !.spread = Some(spread), !.alerted = alert, !.msg = msg]
    IN  [prices |-> DictSet(pr, t.symbol, spread),
         last_spread |-> IF alert /\ TelegramConfigured THEN ls
                         ELSE DictSet(ls, t.symbol, spread),
         task |-> IF alert /\ TelegramConfigured
                  THEN [seen EXCEPT !.pc = "notify", !.cand = 0]
                  ELSE Finished(seen)]

\* the outcomes of lines 157-166, one for each text the format may give
Observe(t, quanto_p, pr, ls) ==
    LET spread == CHOOSE v \in {ComputeSpread(t.mexc_p[1], quanto_p)} : TRUE
        prev == DictGet(ls, t.symbol, RZero)
    IN  {Observed(t, spread, ShouldAlert(spread, prev), text, pr, ls) :
            text \in Format2(spread)}

\* lines 154-166: a depth lookup answers resp; try_quanto_mappings goes on to
\* its next candidate or returns, and process_pair goes on to its next await
MapStep(i, resp) ==
    /\ loopPc = "gather"
    /\ tasks[i].pc = "map"
    /\ \E t \in {Noting(tasks[i], "mapping", FetchQuantoBody(resp).exc)} :
         \E s \in {TryStep(Base(t.symbol), t.cand, resp)} :
             IF s.kind = "next"
             THEN /\ tasks' = SetTask(i, [t EXCEPT !.cand = @ + 1])
                  /\ UNCHANGED <<prices, last_spread>>
             ELSE IF s.kind = "raise" \/ ~TruthyFloat(s.p)
                  THEN /\ tasks' = SetTask(i, Finished([t EXCEPT !.quanto_p = s.p]))
                       /\ UNCHANGED <<prices, last_spread>>
                  ELSE \E o \in Observe([t EXCEPT !.quanto_p = s.p], s.p[1],
                                         prices, last_spread) :
                           /\ tasks' = SetTask(i, o.task)
                           /\ prices' = o.prices
                           /\ last_spread' = o.last_spread
    /\ UNCHANGED <<PAIRS, fileVars, pairs, loopPc, idx, semaphore,
                   prices_cache, offset, mapVars>>

\* venue B answers the depth lookup of workflow i
MapReturn(i) ==
    /\ tasks[i].pc = "map"
    /\ \E resp \in QuantoResponses : MapStep(i, resp)
    /\ UNCHANGED feedVars

\* process_pair leaving the alert state alone once it has alerted
StoreLastSkipped(t, r, ls) == ls

\* line 166 after send_telegram_message returned r: the new last_spread
StoreLast(t, r, ls) ==
    IF r.exc THEN ls ELSE DictSet(ls, t.symbol, t.spread[1])

\* lines 165-166: the Telegram request answers or fails
NotifyReturn(i) ==
    /\ loopPc = "gather"
    /\ tasks[i].pc = "notify"
    /\ \E o \in TelegramOutcomes :
         LET r == SendTelegramMessage(o)
             t == Noting(tasks[i], "notify", SendTelegramBody(o).exc)
         IN  /\ last_spread' = StoreLast(t, r, last_spread)
             /\ tasks' = SetTask(i, Finished(t))
    /\ UNCHANGED <<PAIRS, fileVars, pairs, loopPc, idx, semaphore, prices,
                   prices_cache, offset, mapVars, feedVars>>

----------------------------------------------------------------------------
(* handle_status_commands *)

\* the highest update_id Telegram hands out
MaxUpdateId == 1

\* the updates getUpdates may return for an offset: none, or one message
StatusUpdates(off) ==
    {<< >>} \cup
    {<<[update_id |-> n, text |-> t, chat_id |-> c]>> :
        n \in {m \in 1..MaxUpdateId : m >= off}, t \in {"/status", "hi"},
        c \in {CHAT_ID, CHAT_ID + 1}}

\* the status handler exists: from its creation at line 131 until poll_loop
\* returns
HandlerRuns ==
    loopPc \in {"for", "inSem", "gather", "sleep", "errMsg", "closeSession", "closeExchange"}

\* session.close() has been called: a request on the session raises
SessionClosing == loopPc \in {"closeSession", "closeExchange"}

\* outcomes of GET getUpdates: the request raises, or a JSON object arrives
StatusResponses(off) ==
    {[kind |-> "raise", result |-> << >>]}
    \cup IF SessionClosing THEN {}
         ELSE {[kind |-> "json", result |-> u] : u \in StatusUpdates(off)}

\* sum(d.values())
RECURSIVE SumOver(_, _)
SumOver(d, keys) ==
    IF keys = {} THEN RZero
    ELSE LET k == CHOOSE x \in keys : TRUE
         IN  RAdd(d[k], SumOver(d, keys \ {k}))

\* lines 182-191: the replies the handler may send to one update, one for
\* each text the format may give; none if the update is not /status from the
\* configured chat (the uptime and the clock time are left out)
StatusReply(update, pr) ==
    IF update.text = "/status" /\ update.chat_id = CHAT_ID
    THEN LET n == Cardinality(DOMAIN pr)
             avg_spread == IF n > 0 THEN RDiv(SumOver(pr, DOMAIN pr), R(n, 1)) ELSE RZero
         IN  {[count |-> n, avg |-> text] : text \in Format2(avg_spread)}
    ELSE {}

\* lines 178-179: offset after the updates of one response
RECURSIVE StatusOffset(_, _)
StatusOffset(off, result) ==
    IF result = << >> THEN off
    ELSE StatusOffset(Head(result).update_id + 1, Tail(result))

\* the status handler dropping the table once it has reported it
StatusPollResetting ==
    /\ HandlerRuns
    /\ \E resp \in StatusResponses(offset) :
         /\ offset' = IF resp.kind = "raise" THEN offset
                       ELSE StatusOffset(offset, resp.result)
         /\ prices' = IF \E k \in 1..Len(resp.result) :
                              StatusReply(resp.result[k], prices) # {}
                       THEN EmptyDict ELSE prices
    /\ UNCHANGED <<PAIRS, fileVars, pairs, loopPc, idx, semaphore, tasks,
                   last_spread, prices_cache, mapVars, feedVars>>

\* lines 174-195, one pass of the handler's loop: getUpdates answers, offset moves past the updates, and
\* each /status from the configured chat is answered with StatusReply through
\* send_telegram_message, which returns whatever Telegram does
StatusPoll ==
    /\ HandlerRuns
    /\ \E resp \in StatusResponses(offset) :
         offset' = IF resp.kind = "raise" THEN offset
                   ELSE StatusOffset(offset, resp.result)
    /\ UNCHANGED <<PAIRS, fileVars, pairs, loopPc, idx, semaphore, tasks, prices,
                   last_spread, prices_cache, mapVars, feedVars>>

----------------------------------------------------------------------------
(* The Flask routes *)

\* GET /dashboard (and GET /, which redirects to it): renders the page
Dashboard == UNCHANGED vars

\* what the operator may post as "pair": nothing, or ETH/USDT
PairInputs == {<< >>, ETH}

Contains(seq, x) == \E i \in 1..Len(seq) : seq[i] = x

\* list.remove(x): the first occurrence
RECURSIVE RemoveFirst(_, _)
RemoveFirst(seq, x) ==
    IF seq = << >> THEN << >>
    ELSE IF Head(seq) = x THEN Tail(seq)
         ELSE <<Head(seq)>> \o RemoveFirst(Tail(seq), x)

AddPairFile(cfg, pair) ==
    IF pair # << >> /\ ~Contains(cfg, pair) THEN Append(cfg, pair) ELSE cfg

RemovePairFile(cfg, pair) ==
    IF Contains(cfg, pair) THEN RemoveFirst(cfg, pair) ELSE cfg

\* how many requests may stand between their read and their write at once
MaxRequests == 2

\* a route thread that has read config.json and has yet to write cfg back:
\* before ("read") or after ("opened") its open(CONFIG_FILE, "w")
Request(route, stage, cfg) == SetToBag({[route |-> route, stage |-> stage, cfg |-> cfg]})

\* the pending requests of a route at a stage
PendingOf(route, stage) ==
    {q \in BagToSet(pending) : q.route = route /\ q.stage = stage}

\* POST /addpair, lines 340-347: without a pair the route touches no file;
\* with one it reads config.json and holds the list it will write, or
\* json.load raises on a text that is not JSON and the request ends there
AddPair ==
    /\ \E pair \in PairInputs :
         IF pair = << >> \/ cfgFile.PAIRS = None THEN pending' = pending
         ELSE /\ BagCardinality(pending) < MaxRequests
              /\ pending' = pending (+)
                     Request("add", "read", AddPairFile(cfgFile.PAIRS[1], pair))
    /\ UNCHANGED <<PAIRS, cfgFile, pairs, loopPc, idx, semaphore, tasks, prices,
                   last_spread, prices_cache, offset, mapVars, feedVars>>

\* POST /addpair, line 348: open(CONFIG_FILE, "w") truncates the file
AddPairOpen ==
    /\ \E q \in PendingOf("add", "read") :
         /\ cfgFile' = Truncated
         /\ pending' = (pending (-) SetToBag({q})) (+) Request("add", "opened", q.cfg)
    /\ UNCHANGED <<PAIRS, pairs, loopPc, idx, semaphore, tasks, prices,
                   last_spread, prices_cache, offset, mapVars, feedVars>>

\* POST /addpair, lines 349-350: the text json.dump buffered reaches the file
\* when the with block closes it
AddPairWrite ==
    /\ \E q \in PendingOf("add", "opened") :
         /\ cfgFile' = Overwrite(cfgFile, q.cfg)
         /\ pending' = pending (-) SetToBag({q})
    /\ UNCHANGED <<PAIRS, pairs, loopPc, idx, semaphore, tasks, prices,
                   last_spread, prices_cache, offset, mapVars, feedVars>>

\* POST /removepair, lines 355-359: the route reads config.json, with or
\* without a pair, and holds the list it will write, or json.load raises on
\* a text that is not JSON and the request ends there
RemovePair ==
    /\ \E pair \in PairInputs :
         IF cfgFile.PAIRS = None THEN pending' = pending
         ELSE /\ BagCardinality(pending) < MaxRequests
              /\ pending' = pending (+)
                     Request("remove", "read", RemovePairFile(cfgFile.PAIRS[1], pair))
    /\ UNCHANGED <<PAIRS, cfgFile, pairs, loopPc, idx, semaphore, tasks, prices,
                   last_spread, prices_cache, offset, mapVars, feedVars>>

\* POST /removepair, line 360: open(CONFIG_FILE, "w") truncates the file
RemovePairOpen ==
    /\ \E q \in PendingOf("remove", "read") :
         /\ cfgFile' = Truncated
         /\ pending' = (pending (-) SetToBag({q})) (+) Request("remove", "opened", q.cfg)
    /\ UNCHANGED <<PAIRS, pairs, loopPc, idx, semaphore, tasks, prices,
                   last_spread, prices_cache, offset, mapVars, feedVars>>

\* POST /removepair, lines 361-362: the text reaches the file when the with
\* block closes it
RemovePairWrite ==
    /\ \E q \in PendingOf("remove", "opened") :
         /\ cfgFile' = Overwrite(cfgFile, q.cfg)
         /\ pending' = pending (-) SetToBag({q})
    /\ UNCHANGED <<PAIRS, pairs, loopPc, idx, semaphore, tasks, prices,
                   last_spread, prices_cache, offset, mapVars, feedVars>>

\* GET /api/prices
\* the body of the response to GET /api/prices: jsonify(prices_cache)
ApiPricesBody == prices_cache

\* GET /api/prices: answers ApiPricesBody and writes nothing
ApiPrices == UNCHANGED vars

----------------------------------------------------------------------------
\* the whole process: the event-loop thread and the Flask threads
Next ==
    \/ Start
    \/ MarketsLoaded
    \/ StartupMessageReturn
    \/ Acquire
    \/ AppendRelease
    \/ Gather
    \/ GatherDone
    \/ Wake
    \/ LoopException
    \/ ErrorMessageReturn
    \/ SessionClosed
    \/ ExchangeClosed
    \/ \E i \in 1..Len(tasks) : FetchAReturn(i)
    \/ \E i \in 1..Len(tasks) : MapReturn(i)
    \/ \E i \in 1..Len(tasks) : NotifyReturn(i)
    \/ StatusPoll
    \/ Dashboard
    \/ AddPair
    \/ AddPairOpen
    \/ AddPairWrite
    \/ RemovePair
    \/ RemovePairOpen
    \/ RemovePairWrite
    \/ ApiPrices

\* the configurations the whole process is explored from
ServedConfigs == { <<BTC>>, << >> }

ServedInit == Init /\ PAIRS \in ServedConfigs

Spec == ServedInit /\ [][Next]_vars

\* the thread of line 367 alone, asyncio.run(poll_loop()): poll_loop, the
\* per-pair workflows and the status handler.  The Flask threads share no
\* variable with it but prices_cache, which nothing writes, and config.json,
\* which it does not read again
PollNext ==
    \/ Start
    \/ MarketsLoaded
    \/ StartupMessageReturn
    \/ Acquire
    \/ AppendRelease
    \/ Gather
    \/ GatherDone
    \/ Wake
    \/ LoopException
    \/ ErrorMessageReturn
    \/ SessionClosed
    \/ ExchangeClosed
    \/ \E i \in 1..Len(tasks) : FetchAReturn(i)
    \/ \E i \in 1..Len(tasks) : MapReturn(i)
    \/ \E i \in 1..Len(tasks) : NotifyReturn(i)
    \/ StatusPoll

PollSpec == Init /\ [][PollNext]_vars

\* the polling loop and the workflows take their steps: the event loop runs
\* every ready coroutine, and every network call answers or times out
Workflow == \E i \in 1..Len(tasks) : FetchAReturn(i) \/ MapReturn(i) \/ NotifyReturn(i)

LoopStep ==
    \/ Start \/ MarketsLoaded \/ StartupMessageReturn
    \/ Acquire \/ AppendRelease \/ Gather \/ GatherDone \/ Wake
    \/ ErrorMessageReturn \/ SessionClosed \/ ExchangeClosed

FairSpec == Spec /\ WF_vars(LoopStep) /\ WF_vars(Workflow)

----------------------------------------------------------------------------
(* try_quanto_mappings on its own: one call, candidate k answering mapResp[k] *)

\* the answers a candidate may give in a stand-alone call: every kind of
\* failure, and two different usable tops of book
MapResponses ==
    {r \in QuantoResponses :
        \/ r.kind = "raise" \/ ~r.success \/ ~r.hasData
        \/ r.bids = << >> \/ r.asks = << >>
        \/ <<r.bids[1], r.asks[1]>> \in {<<98, 100>>, <<100, 102>>}}

MapInit ==
    /\ PAIRS = <<BTC>>
    /\ cfgFile = JsonFile(PAIRS)
    /\ pending = EmptyBag
    /\ pairs = << >>
    /\ loopPc = "init"
    /\ idx = 1
    /\ semaphore = CONCURRENCY
    /\ tasks = << >>
    /\ prices = EmptyDict
    /\ last_spread = EmptyDict
    /\ prices_cache = EmptyDict
    /\ offset = 0
    /\ mapBase \in {"BTC", "ETH"}
    /\ mapResp \in [1..NumCandidates -> MapResponses]
    /\ mapOut = None
    /\ feed = << >>
    /\ feedPos = 1

ApplyMapping ==
    /\ mapOut = None
    /\ mapOut' = Some(TryQuantoMappings(mapBase, mapResp))
    /\ UNCHANGED <<loopVars, mapBase, mapResp, feedVars>>

MapNext == ApplyMapping

MapSpec == MapInit /\ [][MapNext]_vars

----------------------------------------------------------------------------
(* Scripted runs: one pair, the venues quoting what a script says.  A quote is
   venue A's last price (0: venue A has no price), the top of book of venue B,
   and the candidate that is the first to answer with it (0: none does); the
   other candidates fail in any way. *)

Quote(last, mid, cand) == [last |-> last, bid |-> mid - 1, ask |-> mid + 1, cand |-> cand]

\* spreads 0.5, 1.2, 1.3, 0.9, 1.4
RisingScript ==
    <<Quote(1000, 1005, 1), Quote(1000, 1012, 2), Quote(1000, 1013, 1),
      Quote(1000, 1009, 1), Quote(1000, 1014, 1)>>

\* venue A at 50000, BTC-USDT-SWAP the first to answer, with 50400 / 50600
EndToEndScript == <<[last |-> 50000, bid |-> 50400, ask |-> 50600, cand |-> 4]>>

\* spreads 0.99, 1.00, -1.00, -1.01, 1.01
BoundaryScript ==
    <<Quote(10000, 10099, 1), Quote(10000, 10100, 1), Quote(10000, 9900, 1),
      Quote(10000, 9899, 1), Quote(10000, 10101, 1)>>

\* spreads -1.00, 1.00
NegativeFirstScript == <<Quote(10000, 9900, 6), Quote(10000, 10100, 1)>>

\* spread 1.2 on the third candidate, no venue-A price, no candidate
\* answering, spread 1.3 on the fifth candidate
GapScript ==
    <<Quote(1000, 1012, 3), Quote(0, 1012, 1), Quote(1000, 1005, 0), Quote(1000, 1013, 5)>>

Scripts == {RisingScript, EndToEndScript, BoundaryScript, NegativeFirstScript, GapScript}

\* the pair list of a scripted run
ScriptPairs == <<BTC>>

\* a depth response without a usable top of book
Unusable(r) ==
    r.kind = "raise" \/ ~r.success \/ ~r.hasData \/ r.bids = << >> \/ r.asks = << >>

\* what candidate k answers while the venues quote q
ScriptedDepth(q, k) ==
    IF k = q.cand
    THEN {[kind |-> "json", success |-> TRUE, hasData |-> TRUE,
           bids |-> <<q.bid>>, asks |-> <<q.ask>>]}
    ELSE {r \in QuantoResponses : Unusable(r)}

ScriptInit ==
    /\ PAIRS = ScriptPairs
    /\ cfgFile = JsonFile(PAIRS)
    /\ pending = EmptyBag
    /\ pairs = << >>
    /\ loopPc = "init"
    /\ idx = 1
    /\ semaphore = CONCURRENCY
    /\ tasks = << >>
    /\ prices = EmptyDict
    /\ last_spread = EmptyDict
    /\ prices_cache = EmptyDict
    /\ offset = 0
    /\ mapBase = "BTC"
    /\ mapResp = << >>
    /\ mapOut = None
    /\ feed \in Scripts
    /\ feedPos = 1

\* venue A answers with the last price of the current quote; the quote is
\* used up if the workflow ends there
ScriptedFetchA(i) ==
    /\ feedPos <= Len(feed)
    /\ FetchAStep(i, [kind |-> "ticker", last |-> Some(feed[feedPos].last)])
    /\ feedPos' = IF tasks'[i].pc = "done" THEN feedPos + 1 ELSE feedPos
    /\ feed' = feed

\* venue B answers the lookup of a candidate; the quote is used up once
\* try_quanto_mappings has returned
ScriptedMap(i) ==
    /\ feedPos <= Len(feed)
    /\ tasks[i].pc = "map"
    /\ \E resp \in ScriptedDepth(feed[feedPos], tasks[i].cand) : MapStep(i, resp)
    /\ feedPos' = IF tasks'[i].pc = "map" THEN feedPos ELSE feedPos + 1
    /\ feed' = feed

ScriptNext ==
    \/ Start
    \/ StartupMessageReturn
    \/ Acquire
    \/ AppendRelease
    \/ Gather
    \/ GatherDone
    \/ Wake
    \/ \E i \in 1..Len(tasks) : ScriptedFetchA(i)
    \/ \E i \in 1..Len(tasks) : ScriptedMap(i)
    \/ \E i \in 1..Len(tasks) : NotifyReturn(i)

ScriptSpec == ScriptInit /\ [][ScriptNext]_vars

\* a scripted run in which the event loop runs every ready coroutine and
\* every network call answers while the script has a quote
ScriptFairSpec == ScriptSpec /\ WF_vars(ScriptNext)

----------------------------------------------------------------------------
(* Properties *)

\* workflow i takes a step that leaves it in the same cycle
SameTask(i) == i \in 1..Len(tasks) /\ i \in 1..Len(tasks')

\* the value stored for a symbol in the alert-state map, or 0 if none is stored
StoredPrevious(symbol) ==
    IF symbol \in DOMAIN last_spread THEN last_spread[symbol] ELSE <<0, 1>>

\* |x| as a rational
Magnitude(x) == <<IF x[1] < 0 THEN 0 - x[1] ELSE x[1], x[2]>>

\* C1: in the step in which a workflow computes its spread, it fires an
\* alert (and awaits the notification) if and only if the magnitude of the
\* spread is at least the threshold and greater than the magnitude of the
\* value last_spread held for the pair before the step (0 if none); a spread
\* equal to the stored one never alerts.
C1_AlertIffIncreasePastThreshold ==
    [][\A i \in 1..Len(tasks) :
         (SameTask(i) /\ tasks[i].spread = None /\ tasks'[i].spread # None) =>
            LET spread == tasks'[i].spread[1]
                previous == StoredPrevious(tasks[i].symbol)
                due == /\ Magnitude(spread)[1] * SPREAD_THRESHOLD[2]
                            >= SPREAD_THRESHOLD[1] * Magnitude(spread)[2]
                       /\ Magnitude(spread)[1] * previous[2]
                            > Magnitude(previous)[1] * spread[2]
            IN  /\ tasks'[i].alerted <=> due
                /\ (tasks'[i].pc = "notify") <=> due
                /\ (previous = spread) => ~tasks'[i].alerted]_vars

\* one workflow is sending an alert while another has finished an observation
\* at or above the threshold without alerting
C1_Witness ==
    \E i, j \in 1..Len(tasks) :
        /\ tasks[i].pc = "notify" /\ tasks[i].alerted
        /\ tasks[j].pc = "done" /\ tasks[j].spread # None /\ ~tasks[j].alerted
        /\ RGe(Magnitude(tasks[j].spread[1]), SPREAD_THRESHOLD)

\* C2: at every instant at most CONCURRENCY per-pair workflows are in flight.
C2_AtMostConcurrencyInFlight == Cardinality(InFlight) <= CONCURRENCY

\* C3: a workflow that computed a spread has stored it in last_spread when it
\* ends, whether or not it alerted and whether or not the notification failed.
C3_LastSpreadAlwaysStored ==
    [][\A i \in 1..Len(tasks) :
         (SameTask(i) /\ tasks[i].pc # "done" /\ tasks'[i].pc = "done"
            /\ tasks'[i].spread # None) =>
            /\ tasks[i].symbol \in DOMAIN last_spread'
            /\ last_spread'[tasks[i].symbol] = tasks'[i].spread[1]]_vars

\* a workflow whose notification request raised has ended with its spread stored
C3_Witness ==
    \E i \in 1..Len(tasks) :
        /\ tasks[i].pc = "done" /\ tasks[i].alerted /\ tasks[i].raised = "notify"
        /\ tasks[i].symbol \in DOMAIN last_spread
        /\ last_spread[tasks[i].symbol] = tasks[i].spread[1]

\* C4: a workflow whose venue-A price is none or zero ends at once: it looks
\* up no venue-B candidate, computes no spread, fires no alert and leaves the
\* price table and the alert-state map as they were.
C4_FalsyPriceSkipsPair ==
    [][\A i \in 1..Len(tasks) :
         (SameTask(i) /\ tasks[i].pc = "fetchA" /\ tasks'[i].pc # "fetchA"
            /\ (tasks'[i].mexc_p = None \/ tasks'[i].mexc_p[1][1] = 0)) =>
            /\ tasks'[i].pc = "done"
            /\ tasks'[i].cand = 0
            /\ tasks'[i].spread = None
            /\ ~tasks'[i].alerted
            /\ prices' = prices
            /\ last_spread' = last_spread]_vars

\* a pair observed in an earlier cycle is skipped for want of a venue-A
\* price (no call raised), and its entries are still there
C4_Witness ==
    \E i \in 1..Len(tasks) :
        /\ tasks[i].pc = "done" /\ tasks[i].mexc_p = None /\ tasks[i].raised = ""
        /\ tasks[i].symbol \in DOMAIN prices
        /\ tasks[i].symbol \in DOMAIN last_spread

\* a depth response with a usable top of book
Usable(r) ==
    r.kind = "json" /\ r.success /\ r.hasData /\ r.bids # << >> /\ r.asks # << >>

\* the candidates of the stand-alone call that have a usable top of book
Matching == {k \in 1..Len(mapResp) : Usable(mapResp[k])}

FirstMatching == CHOOSE k \in Matching : \A j \in Matching : k <= j

FixedOrder == <<"USD-SWAP-LIN", "USDT-SWAP-LIN", "USD-SWAP", "USDT-SWAP", "USD", "USDT">>

\* the mid price of a usable response
MidOf(r) == R(r.bids[1] + r.asks[1], 2)

\* C5: whatever subset of the six candidates has a usable top of book,
\* try_quanto_mappings returns the earliest of them in the fixed order,
\* with that candidate's mid price.
C5_FirstMatchInFixedOrder ==
    (mapOut # None /\ Matching # {}) =>
        /\ mapOut[1].kind = "return"
        /\ mapOut[1].sym = Some(<<mapBase, FixedOrder[FirstMatching]>>)
        /\ mapOut[1].p = Some(MidOf(mapResp[FirstMatching]))

\* the call returned although the first candidate failed and two later
\* candidates match with different mid prices
C5_Witness ==
    /\ mapOut # None
    /\ 1 \notin Matching
    /\ \E j, k \in Matching : j # k /\ MidOf(mapResp[j]) # MidOf(mapResp[k])

\* C6: a failed lookup counts as no match and the next candidate is tried;
\* no lookup error leaves try_quanto_mappings; when no candidate matches the
\* result is (None, None), and when one matches a candidate is returned.
C6_FailedLookupIsNoMatch ==
    mapOut # None =>
        /\ mapOut[1].kind = "return"
        /\ (Matching = {}) => (mapOut[1].sym = None /\ mapOut[1].p = None)
        /\ (Matching # {}) => (mapOut[1].sym # None /\ mapOut[1].p # None)

\* the call went past a network error, a missing success flag, missing data,
\* empty bids and empty asks, and returned the sixth candidate
C6_Witness ==
    /\ mapOut # None
    /\ mapResp[1].kind = "raise"
    /\ mapResp[2].kind = "json" /\ ~mapResp[2].success
    /\ mapResp[3].kind = "json" /\ mapResp[3].success /\ ~mapResp[3].hasData
    /\ mapResp[4].kind = "json" /\ mapResp[4].hasData /\ mapResp[4].bids = << >>
    /\ mapResp[5].kind = "json" /\ mapResp[5].hasData /\ mapResp[5].asks = << >>
    /\ mapOut[1].sym = Some(<<mapBase, "USDT">>)

\* C7: every pair for which process_pair stored an observation has an entry
\* with that observation in what GET /api/prices returns.
C7_DashboardServesObservations ==
    \A symbol \in DOMAIN prices :
        /\ symbol \in DOMAIN ApiPricesBody
        /\ ApiPricesBody[symbol] = prices[symbol]

\* C10: an exception at the loop level never ends the polling loop: poll_loop
\* never leaves its while loop for the closing of the session and the exchange.
C10_LoopNeverEnds == loopPc \notin {"closeSession", "closeExchange", "closed"}

\* a workflow for the pair is running
Processing(p) ==
    \E i \in 1..Len(tasks) : tasks[i].symbol = p /\ tasks[i].pc \in {"fetchA", "map", "notify"}

\* poll_loop has left its while loop, or has ended before reaching it
\* config.json is JSON and holds the pair in its list
InFile(p) == cfgFile.PAIRS # None /\ \E i \in 1..Len(cfgFile.PAIRS[1]) : cfgFile.PAIRS[1][i] = p

LoopEnded ==
    loopPc \in {"errMsg", "closeSession", "closeExchange", "closed", "failed", "crashed"}

\* C8: a pair that add_pair put into the configuration while the loop runs is
\* processed by some later cycle (unless it is removed again or the loop
\* ends), and a pair that remove_pair took out for good is, from some cycle
\* on, no longer processed.
C8_MutatedPairListTakesEffect ==
    \A p \in PairInputs \ {<< >>} :
        /\ (loopPc # "init" /\ InFile(p) /\ ~Contains(pairs, p))
              ~> (Processing(p) \/ ~InFile(p) \/ LoopEnded)
        /\ (<>[](~InFile(p))) => <>[](~Processing(p))

\* workflow i takes a step in which one of its network calls raises
RaisesIn(i) == SameTask(i) /\ tasks'[i].raised # tasks[i].raised

\* C9 as stated: the pair of a workflow in which a call raised is skipped for
\* the cycle (nothing stored, no further call), the exception does not reach
\* poll_loop and the other pairs are untouched.
C9_ExceptionSkipsPair ==
    [][\A i \in 1..Len(tasks) : RaisesIn(i) =>
         /\ tasks'[i].pc = "done"
         /\ tasks'[i].spread = None
         /\ prices' = prices
         /\ last_spread' = last_spread
         /\ loopPc' = loopPc
         /\ \A j \in 1..Len(tasks) : j # i => tasks'[j] = tasks[j]]_vars

\* the entries of a dict for the symbols other than one
Others(d, symbol) == [k \in DOMAIN d \ {symbol} |-> d[k]]

\* C9, amended: an exception raised by a network call of a workflow is caught
\* within the workflow and does not reach poll_loop; the other workflows and
\* the other pairs' entries are untouched.  After a venue-A exception the
\* workflow ends with nothing stored; after a candidate lookup exception the
\* next candidate is tried, and the workflow ends with nothing stored if it
\* was the last one; after a notification exception the workflow ends with
\* its spread stored in last_spread.
C9_ExceptionIsContained ==
    [][\A i \in 1..Len(tasks) : RaisesIn(i) =>
         /\ loopPc' = "gather"
         /\ \A j \in 1..Len(tasks) : j # i => tasks'[j] = tasks[j]
         /\ Others(prices', tasks[i].symbol) = Others(prices, tasks[i].symbol)
         /\ Others(last_spread', tasks[i].symbol) = Others(last_spread, tasks[i].symbol)
         /\ tasks'[i].raised = "venueA" =>
              /\ tasks'[i].pc = "done" /\ tasks'[i].spread = None
              /\ prices' = prices /\ last_spread' = last_spread
         /\ tasks'[i].raised = "mapping" =>
              /\ prices' = prices /\ last_spread' = last_spread
              /\ tasks'[i].spread = None
              /\ IF tasks[i].cand < 6
                 THEN tasks'[i].pc = "map" /\ tasks'[i].cand = tasks[i].cand + 1
                 ELSE tasks'[i].pc = "done"
         /\ tasks'[i].raised = "notify" =>
              /\ tasks'[i].pc = "done"
              /\ prices' = prices
              /\ last_spread'[tasks[i].symbol] = tasks[i].spread[1]]_vars

\* in one cycle a venue-A fetch raised for one pair, a candidate lookup
\* raised for another and that pair was observed all the same
C9_Witness ==
    \E i, j \in 1..Len(tasks) :
        /\ tasks[i].pc = "done" /\ tasks[i].raised = "venueA"
        /\ tasks[j].pc = "done" /\ tasks[j].raised = "mapping" /\ tasks[j].spread # None

\* v = (b - a) / a * 100 for rationals v, a, b with a # 0
IsSpreadOf(v, a, b) ==
    v[1] * (a[1] * b[2]) = v[2] * 100 * (b[1] * a[2] - a[1] * b[2])

\* the sign of v is the sign of b - a (a > 0)
SignFollows(v, a, b) ==
    /\ (v[1] > 0) <=> (b[1] * a[2] > a[1] * b[2])
    /\ (v[1] < 0) <=> (b[1] * a[2] < a[1] * b[2])
    /\ (v[1] = 0) <=> (b = a)

\* the step changes what dict d holds for the symbol
Written(d, dNext, symbol) ==
    symbol \in DOMAIN dNext /\ (symbol \notin DOMAIN d \/ dNext[symbol] # d[symbol])

\* workflow i takes the step, with both prices fetched, and v is their spread
SpreadOfWorkflow(i, v) ==
    /\ SameTask(i) /\ tasks'[i] # tasks[i]
    /\ tasks'[i].mexc_p # None /\ tasks'[i].quanto_p # None
    /\ tasks'[i].mexc_p[1][1] > 0
    /\ IsSpreadOf(v, tasks'[i].mexc_p[1], tasks'[i].quanto_p[1])
    /\ SignFollows(v, tasks'[i].mexc_p[1], tasks'[i].quanto_p[1])

\* C13: every value a step writes to the price table or to the alert-state
\* map is (venueBPrice - venueAPrice) / venueAPrice * 100 for the two prices
\* fetched by the workflow that takes the step, for its own pair, and its
\* sign is the sign of venueBPrice - venueAPrice; the workflow that computes
\* a spread writes it to the price table in the same step, and the workflow
\* that ends with a spread has written it to the alert-state map.
C13_StoredValueIsSpreadOverVenueA ==
    [][/\ \A symbol \in DOMAIN prices' : Written(prices, prices', symbol) =>
             \E i \in 1..Len(tasks) :
                 tasks[i].symbol = symbol /\ SpreadOfWorkflow(i, prices'[symbol])
       /\ \A symbol \in DOMAIN last_spread' : Written(last_spread, last_spread', symbol) =>
             \E i \in 1..Len(tasks) :
                 tasks[i].symbol = symbol /\ SpreadOfWorkflow(i, last_spread'[symbol])
       /\ \A i \in 1..Len(tasks) :
             (SameTask(i) /\ tasks[i].spread = None /\ tasks'[i].spread # None) =>
                 /\ prices'[tasks[i].symbol] = tasks'[i].spread[1]
                 /\ SpreadOfWorkflow(i, tasks'[i].spread[1])
       /\ \A i \in 1..Len(tasks) :
             (SameTask(i) /\ tasks[i].pc # "done" /\ tasks'[i].pc = "done"
                /\ tasks'[i].spread # None) =>
                 /\ last_spread'[tasks[i].symbol] = tasks'[i].spread[1]
                 /\ SpreadOfWorkflow(i, tasks'[i].spread[1])]_vars

\* one pair is stored with venue B below venue A, another with venue B above
\* venue A, in both tables
C13_Witness ==
    \E i, j \in 1..Len(tasks) :
        /\ tasks[i].pc = "done" /\ tasks[j].pc = "done"
        /\ tasks[i].spread # None /\ tasks[j].spread # None
        /\ tasks[i].symbol \in DOMAIN prices /\ tasks[j].symbol \in DOMAIN prices
        /\ tasks[i].symbol \in DOMAIN last_spread /\ tasks[j].symbol \in DOMAIN last_spread
        /\ RGt(tasks[i].mexc_p[1], tasks[i].quanto_p[1])
        /\ prices[tasks[i].symbol] = last_spread[tasks[i].symbol]
        /\ prices[tasks[i].symbol][1] < 0
        /\ RGt(tasks[j].quanto_p[1], tasks[j].mexc_p[1])
        /\ prices[tasks[j].symbol] = last_spread[tasks[j].symbol]
        /\ prices[tasks[j].symbol][1] > 0

\* C14: the workflow that fires an alert builds a message that carries its
\* pair identifier and the direction label of the sign of the spread it has
\* just computed: buy on MEXC / sell on Quanto iff the spread is positive,
\* sell on MEXC / buy on Quanto iff it is negative; the spread of an alert is
\* never 0, and a workflow that fires no alert builds no message.
C14_AlertCarriesPairAndDirection ==
    [][\A i \in 1..Len(tasks) :
         (SameTask(i) /\ tasks[i].spread = None /\ tasks'[i].spread # None) =>
            LET spread == tasks'[i].spread[1]
                msg == tasks'[i].msg
            IN  /\ tasks'[i].alerted <=> msg # None
                /\ tasks'[i].alerted =>
                      /\ msg[1].symbol = tasks[i].symbol
                      /\ spread[1] # 0
                      /\ (msg[1].direction = "Compra su MEXC / Vendi su Quanto")
                            <=> spread[1] > 0
                      /\ (msg[1].direction = "Vendi su MEXC / Compra su Quanto")
                            <=> spread[1] < 0]_vars

\* in one cycle one pair alerted on a positive spread and another on a
\* negative one, each with its own identifier in the message
C14_Witness ==
    \E i, j \in 1..Len(tasks) :
        /\ tasks[i].symbol # tasks[j].symbol
        /\ tasks[i].alerted /\ tasks[i].spread[1][1] > 0
        /\ tasks[i].msg[1].symbol = tasks[i].symbol
        /\ tasks[j].alerted /\ tasks[j].spread[1][1] < 0
        /\ tasks[j].msg[1].symbol = tasks[j].symbol

\* C15: a step that changes the price table or the alert-state map is a step
\* of a per-pair workflow of the running cycle, for that workflow's pair;
\* the steps of the status handler (which move offset) and of the dashboard
\* routes (which rewrite config.json or only answer) leave both unchanged.
C15_SingleWriter ==
    [][/\ (prices' # prices \/ last_spread' # last_spread) =>
             /\ loopPc = "gather" /\ loopPc' = "gather"
             /\ \E i \in 1..Len(tasks) :
                    /\ SameTask(i) /\ tasks[i].pc \in {"map", "notify"}
                    /\ tasks'[i] # tasks[i]
                    /\ Others(prices', tasks[i].symbol) = Others(prices, tasks[i].symbol)
                    /\ Others(last_spread', tasks[i].symbol)
                          = Others(last_spread, tasks[i].symbol)
       /\ (offset' # offset \/ cfgFile' # cfgFile \/ pending' # pending \/ tasks' = tasks) =>
             (prices' = prices /\ last_spread' = last_spread)]_vars

\* the status handler has taken an update and a route has rewritten
\* config.json while the tables hold an observation
C15_Witness ==
    /\ offset # 0
    /\ cfgFile.PAIRS # None /\ cfgFile.PAIRS[1] # PAIRS
    /\ prices # EmptyDict
    /\ last_spread # EmptyDict

\* the observation of the script the running workflow has made (counted
\* from 0), once it has computed its spread
Observation == feedPos - 2

\* the spreads of the rising script
RisingSpreads == <<R(5, 10), R(12, 10), R(13, 10), R(9, 10), R(14, 10)>>

\* the workflow of the pair has computed the spread of an observation of
\* the rising script
RisingObserved ==
    /\ feed = RisingScript
    /\ Len(tasks) = 1
    /\ tasks[1].spread # None

\* C11 as stated: over the observations 0.5, 1.2, 1.3, 0.9, 1.4 with nothing
\* stored at the start, alerts fire at index 1 and index 4 and at no other.
C11_AlertsAtOneAndFour ==
    RisingObserved =>
        /\ tasks[1].spread[1] = RisingSpreads[Observation + 1]
        /\ tasks[1].alerted <=> Observation \in {1, 4}

\* C11, amended: over the observations 0.5, 1.2, 1.3, 0.9, 1.4 with nothing
\* stored at the start, alerts fire at index 1, index 2 and index 4, and none
\* fires at index 0 or index 3.
C11_AlertsAtOneTwoAndFour ==
    RisingObserved =>
        /\ tasks[1].spread[1] = RisingSpreads[Observation + 1]
        /\ tasks[1].alerted <=> Observation \in {1, 2, 4}

\* the last observation of the rising script has alerted and is stored
C11_Witness ==
    /\ RisingObserved
    /\ Observation = 4
    /\ tasks[1].alerted
    /\ tasks[1].pc = "done"
    /\ last_spread[BTC] = R(14, 10)

\* C12: a workflow whose pair has nothing stored in the alert-state map and
\* whose spread has exactly the magnitude of the threshold fires an alert;
\* with venue A at 50000 and BTC-USDT-SWAP the first candidate to answer,
\* with bid 50400 and ask 50600, the mid price is 50500, the spread is 1.00
\* and the alert says buy on MEXC / sell on Quanto.
C12_ThresholdIsInclusive ==
    [][\A i \in 1..Len(tasks) :
         (SameTask(i) /\ tasks[i].spread = None /\ tasks'[i].spread # None) =>
            /\ (tasks[i].symbol \notin DOMAIN last_spread
                  /\ Magnitude(tasks'[i].spread[1]) = SPREAD_THRESHOLD)
                 => (tasks'[i].alerted /\ tasks'[i].pc = "notify")
            /\ feed = EndToEndScript =>
                 /\ tasks[i].cand = 4
                 /\ tasks'[i].mexc_p = Some(<<50000, 1>>)
                 /\ tasks'[i].quanto_p = Some(<<50500, 1>>)
                 /\ tasks'[i].spread = Some(<<1, 1>>)
                 /\ tasks'[i].alerted
                 /\ tasks'[i].msg[1].symbol = BTC
                 /\ tasks'[i].msg[1].spread = [neg |-> FALSE, whole |-> 1, hundredths |-> 0]
                 /\ tasks'[i].msg[1].direction = "Compra su MEXC / Vendi su Quanto"]_vars

\* the end-to-end run has alerted on its spread of exactly the threshold,
\* after three candidates failed
C12_Witness ==
    /\ feed = EndToEndScript
    /\ Len(tasks) = 1
    /\ tasks[1].alerted
    /\ tasks[1].spread = Some(SPREAD_THRESHOLD)
    /\ tasks[1].raised = "mapping"

\* the shape of a step of workflow i: the venue-A fetch is the first call
\* and is issued once; the lookups follow it one at a time, candidate 1
\* first and candidate k + 1 after candidate k, six at most; once a
\* candidate has matched or the workflow has left the lookups, no lookup
\* follows
WorkflowStepShape(i) ==
    /\ tasks'[i].pc = "fetchA" => tasks[i].pc = "created"
    /\ tasks[i].pc = "created" => tasks'[i].pc = "fetchA"
    /\ tasks[i].pc = "fetchA" =>
          \/ tasks'[i].pc = "done"
          \/ tasks'[i].pc = "map" /\ tasks'[i].cand = 1
    /\ tasks[i].pc = "map" =>
          /\ tasks[i].cand \in 1..6
          /\ \/ /\ tasks'[i].pc = "map"
                /\ tasks'[i].cand = tasks[i].cand + 1
                /\ tasks'[i].cand <= 6
             \/ tasks'[i].pc \in {"notify", "done"}
    /\ tasks'[i].quanto_p # None => tasks'[i].pc \in {"notify", "done"}
    /\ tasks[i].pc = "notify" => tasks'[i].pc = "done"
    /\ tasks[i].pc # "done"

\* the lookup in flight is not past the first candidate that matches
NotPastFirstMatch ==
    \A i \in 1..Len(tasks) :
        (tasks[i].pc = "map" /\ feedPos <= Len(feed) /\ feed[feedPos].cand # 0) =>
            tasks[i].cand <= feed[feedPos].cand

\* C16: a workflow issues one venue-A fetch, first, and then at most six
\* venue-B lookups, one at a time in candidate order; no lookup is in flight
\* for a candidate after the first one that matches; and a workflow whose
\* network calls are answered ends.
C16_OneFetchThenLookupsInOrder ==
    /\ [][\A i \in 1..Len(tasks) :
             (SameTask(i) /\ tasks'[i] # tasks[i]) => WorkflowStepShape(i)]_vars
    /\ []NotPastFirstMatch
    /\ \A i \in 1..Len(ScriptPairs) :
          (Len(tasks) >= i /\ tasks[i].pc = "fetchA" /\ feedPos <= Len(feed))
             ~> (Len(tasks) >= i /\ tasks[i].pc = "done")

\* a workflow has ended after its venue-A fetch and six lookups of which
\* none matched
C16_Witness ==
    /\ feed = GapScript
    /\ feedPos = 4
    /\ Len(tasks) = 1
    /\ tasks[1].pc = "done"
    /\ tasks[1].mexc_p = Some(<<1000, 1>>)
    /\ tasks[1].quanto_p = None
    /\ last_spread[BTC] = R(12, 10)

\* the cycle's coroutines are one per configured pair, in order
AllPairsInCycle ==
    /\ Len(tasks) = Len(pairs)
    /\ \A i \in 1..Len(tasks) : tasks[i].symbol = pairs[i]

\* C17: the workflows a cycle runs are one per configured pair; every cycle
\* that has started its workflows completes and the next one starts; and
\* every configured pair is processed again and again, for ever.
C17_EveryPairPolledForever ==
    /\ [](loopPc \in {"gather", "sleep"} => AllPairsInCycle)
    /\ [](loopPc = "gather" => <>(loopPc = "sleep"))
    /\ [](loopPc = "sleep" => <>(loopPc = "gather"))
    /\ \A p \in Listed : [](Contains(pairs, p) => <>Processing(p))

\* C18: while a workflow is between its read of the alert state and its
\* write of it (it awaits its notification), no other workflow of the same
\* pair computes a spread, decides on an alert or changes the stored value,
\* whatever the pair list, so that every decision is taken against the
\* preceding completed observation of the pair.
C18_DecisionNeverStale ==
    [][\A i \in 1..Len(tasks) :
         (SameTask(i) /\ tasks[i].pc = "notify" /\ tasks'[i] = tasks[i]) =>
            /\ StoredPrevious(tasks[i].symbol)' = StoredPrevious(tasks[i].symbol)
            /\ \A j \in 1..Len(tasks) :
                   (j # i /\ tasks[j].symbol = tasks[i].symbol) =>
                       (tasks'[j].spread = tasks[j].spread)]_vars

\* no pair occurs twice in the list
NoDuplicates(seq) == \A i, j \in 1..Len(seq) : seq[i] = seq[j] => i = j

\* C19: workflows are in flight only while poll_loop awaits gather; while
\* poll_loop builds the coroutines of a cycle none of them has started and
\* none of an earlier cycle is left, and when it sleeps all of them have
\* finished; for a pair list without duplicates no two workflows in flight
\* are for the same pair.
C19_CyclesDoNotOverlap ==
    /\ InFlight # {} => loopPc = "gather"
    /\ loopPc \in {"init", "loadMarkets", "startMsg", "for", "inSem"} =>
          \A i \in 1..Len(tasks) : tasks[i].pc = "created"
    /\ loopPc \in {"sleep", "errMsg", "closeSession", "closeExchange", "closed"} =>
          \A i \in 1..Len(tasks) : tasks[i].pc = "done"
    /\ NoDuplicates(pairs) =>
          \A i, j \in InFlight : tasks[i].symbol = tasks[j].symbol => i = j

\* a later cycle is building its coroutines, one created and none started,
\* with the observations of an earlier cycle stored for two pairs
C19_Witness ==
    /\ loopPc = "inSem"
    /\ Len(tasks) = 1
    /\ tasks[1].pc = "created"
    /\ Cardinality(DOMAIN last_spread) = 2

\* C20: for a pair list without duplicates, whenever no workflow is in
\* flight the price table and the alert-state map have the same keys and
\* hold the same value for each of them.
C20_TablesAgreeBetweenCycles ==
    (NoDuplicates(pairs) /\ InFlight = {}) => prices = last_spread

\* a cycle has ended with two pairs stored, one of them after an alert whose
\* notification request raised
C20_Witness ==
    /\ loopPc = "sleep"
    /\ NoDuplicates(pairs)
    /\ Cardinality(DOMAIN prices) = 2
    /\ prices = last_spread
    /\ \E i \in 1..Len(tasks) : tasks[i].alerted /\ tasks[i].raised = "notify"

====
